---- MODULE Spec2Model ----
\* Model of the image-fusion application: the React state of App (src/App.tsx),
\* the upload widget (src/unnamed/part_001) and the two remote-service clients
\* (src/unnamed/part_000).  Every action is one browser task (a user event, a
\* FileReader event, the answer to a remote request) together with the promise
\* continuations it releases, which run before the next task.  The state
\* updates of one task are committed together (automatic batching, React 18
\* and later), so a state of the model is a state the page renders.
EXTENDS Integers, Sequences, FiniteSets, TLC

\* ---------------------------------------------------------------- bounds
\* Number of runs (started invocations of handleGenerateClick) explored.
MaxRuns == 2

\* The largest number of parts of a fusion response whose extraction is checked.
MaxParts == 3

\* ---------------------------------------------------------------- values
\* JavaScript null, and a present value v.
null == <<>>
Some(v) == <<v>>

\* The files the user can pick; a MIME type "major/minor" is <<major, minor>>.
Files ==
    { [name |-> "a.png",     type |-> <<"image", "png">>],
      [name |-> "b.jpg",     type |-> <<"image", "jpeg">>],
      [name |-> "notes.txt", type |-> <<"text", "plain">>] }

\* The <option> values of the aspect-ratio <select>.
AspectRatios == {"1:1", "4:3", "3:4", "16:9", "9:16"}

\* The fields the response schema of the style extraction requires.
RequiredFields == {"style", "subject", "composition", "lighting", "colors", "mood"}

ValidationMessage == "Please upload both a reference and a subject image."
AnalyzeMessage == "Failed to analyze the reference image. The content may have been blocked."
FusionMessage == "Failed to generate the final images. The content may have been blocked or the model failed."
NoImageMessage == "Image generation failed, no image data found in response."
UnknownMessage == "An unknown error occurred during image generation."
Step1Message == "Step 1/2: Analyzing reference image for style..."
Step2Message == "Step 2/2: Fusing images and generating 4 new versions..."

\* A thrown value: an Error with a message, or the ProgressEvent of a FileReader.
ErrorOf(msg) == [instanceofError |-> TRUE, message |-> msg]
ProgressEvent == [instanceofError |-> FALSE, type |-> "error"]

VARIABLES
    referenceImage,   \* useState: null or Some([file, url])
    subjectImage,     \* useState: null or Some([file, url])
    generatedImages,  \* useState: null or Some(sequence of data URLs)
    isLoading,        \* useState: BOOLEAN
    error,            \* useState: null or Some(message)
    progressMessage,  \* useState: string
    aspectRatio,      \* useState: string
    runs,             \* the invocations of handleGenerateClick that started a run
    nRuns             \* how many of them there are

ui == <<referenceImage, subjectImage, generatedImages, isLoading, error,
        progressMessage, aspectRatio>>
vars == <<referenceImage, subjectImage, generatedImages, isLoading, error,
          progressMessage, aspectRatio, runs, nRuns>>

\* ---------------------------------------------------------------- helpers
\* URL.createObjectURL(file)
createObjectURL(file) == <<"blob", file.name>>

\* FileReader.readAsDataURL(file): "data:<type>;base64,<payload>", kept as the
\* two pieces the comma separates.
readAsDataURL(file) == << <<"data", file.type, "base64">>, <<"base64", file.name>> >>

\* fileToBase64, on load: reader.result.split(',')[1]
fileToBase64(file) == readAsDataURL(file)[2]

\* `data:image/png;base64,${base64}`
toDataUrl(base64) == << <<"data", <<"image", "png">>, "base64">>, base64 >>

\* file.type.startsWith('image/')
isImageType(type) == type[1] = "image"

\* A run that has not started: the closure and the locals of the invocation.
\* pc: "unstarted", "readReference", "analyze", "readSubject", "fuse",
\*     "succeeded" (the try block completed), "failed" (the catch block ran).
\* inFlight counts the fusion requests still unanswered once the invocation
\* has returned.
NoRun ==
    [ pc |-> "unstarted",
      referenceImage |-> null, subjectImage |-> null, aspectRatio |-> null,
      styleRequest |-> null, stylePrompt |-> null, calls |-> <<>>, inFlight |-> 0 ]

Init ==
    /\ referenceImage = null
    /\ subjectImage = null
    /\ generatedImages = null
    /\ isLoading = FALSE
    /\ error = null
    /\ progressMessage = ""
    /\ aspectRatio = "1:1"
    /\ runs = [r \in 1..MaxRuns |-> NoRun]
    /\ nRuns = 0

\* ---------------------------------------------------------------- uploads
handleReferenceImageUpload(file) ==
    /\ referenceImage' = Some([file |-> file, url |-> createObjectURL(file)])
    /\ generatedImages' = null
    /\ error' = null
    /\ UNCHANGED <<subjectImage, isLoading, progressMessage, aspectRatio>>

handleSubjectImageUpload(file) ==
    /\ subjectImage' = Some([file |-> file, url |-> createObjectURL(file)])
    /\ generatedImages' = null
    /\ error' = null
    /\ UNCHANGED <<referenceImage, isLoading, progressMessage, aspectRatio>>

\* ImageUploader.handleFileChange: files is the FileList of the input (here
\* empty or one file); only an image file reaches onImageUpload.
handleFileChangeAccepts(files) ==
    /\ files # null
    /\ isImageType(files[1].type)

ReferenceFileChange ==
    \E files \in {null} \cup {Some(f) : f \in Files} :
        IF handleFileChangeAccepts(files)
        THEN /\ handleReferenceImageUpload(files[1])
             /\ UNCHANGED <<runs, nRuns>>
        ELSE UNCHANGED vars

SubjectFileChange ==
    \E files \in {null} \cup {Some(f) : f \in Files} :
        IF handleFileChangeAccepts(files)
        THEN /\ handleSubjectImageUpload(files[1])
             /\ UNCHANGED <<runs, nRuns>>
        ELSE UNCHANGED vars

\* Variant of SelectAspectRatio: the control accepts a value that is not one
\* of the options (a free-text field).
SelectAspectRatioFreeText ==
    /\ \E value \in (AspectRatios \cup {"2:1"}) \ {aspectRatio} :
        aspectRatio' = value
    /\ UNCHANGED <<referenceImage, subjectImage, generatedImages, isLoading,
                   error, progressMessage, runs, nRuns>>

\* onChange of the <select>: e.target.value is the value of one of the options.
SelectAspectRatio ==
    /\ \E value \in AspectRatios \ {aspectRatio} :
        aspectRatio' = value
    /\ UNCHANGED <<referenceImage, subjectImage, generatedImages, isLoading,
                   error, progressMessage, runs, nRuns>>

\* ---------------------------------------------------------------- the run
\* Variant of ButtonDisabled: the attribute does not look at isLoading.
ButtonDisabledIgnoresLoading == referenceImage = null \/ subjectImage = null

\* The disabled attribute of the trigger button.
ButtonDisabled == referenceImage = null \/ subjectImage = null \/ isLoading

\* Variant of CatchValue: err.message without the fallback; a value that is no
\* Error has no message.
CatchValueNoFallback(err) ==
    IF "message" \in DOMAIN err THEN Some(err.message) ELSE null

\* Variant of Finally: the loading flag is not reset.
FinallyKeepsLoading ==
    /\ isLoading' = isLoading
    /\ progressMessage' = ""

\* catch (err) { setError(...) } and finally { ... } of handleGenerateClick.
CatchValue(err) ==
    IF err.instanceofError THEN Some(err.message) ELSE Some(UnknownMessage)

Catch(err) == error' = CatchValue(err)

Finally ==
    /\ isLoading' = FALSE
    /\ progressMessage' = ""

\* Variant of handleGenerateClick: the validation rejects only when both images
\* are missing.
handleGenerateClickBothMissing ==
    IF referenceImage = null /\ subjectImage = null
    THEN /\ error' = Some(ValidationMessage)
         /\ UNCHANGED <<referenceImage, subjectImage, generatedImages, isLoading,
                        progressMessage, aspectRatio, runs, nRuns>>
    ELSE /\ nRuns < MaxRuns
         /\ isLoading' = TRUE
         /\ error' = null
         /\ generatedImages' = null
         /\ progressMessage' = Step1Message
         /\ nRuns' = nRuns + 1
         /\ runs' = [runs EXCEPT ![nRuns + 1] =
                        [NoRun EXCEPT !.pc = "readReference",
                                      !.referenceImage = referenceImage,
                                      !.subjectImage = subjectImage,
                                      !.aspectRatio = Some(aspectRatio)]]
         /\ UNCHANGED <<referenceImage, subjectImage, aspectRatio>>

\* Variant of handleGenerateClick: the error of the previous run is not reset.
handleGenerateClickKeepsError ==
    IF referenceImage = null \/ subjectImage = null
    THEN /\ error' = Some(ValidationMessage)
         /\ UNCHANGED <<referenceImage, subjectImage, generatedImages, isLoading,
                        progressMessage, aspectRatio, runs, nRuns>>
    ELSE /\ nRuns < MaxRuns
         /\ isLoading' = TRUE
         /\ generatedImages' = null
         /\ progressMessage' = Step1Message
         /\ nRuns' = nRuns + 1
         /\ runs' = [runs EXCEPT ![nRuns + 1] =
                        [NoRun EXCEPT !.pc = "readReference",
                                      !.referenceImage = referenceImage,
                                      !.subjectImage = subjectImage,
                                      !.aspectRatio = Some(aspectRatio)]]
         /\ UNCHANGED <<referenceImage, subjectImage, aspectRatio, error>>

\* handleGenerateClick up to its first await: the validation, the three resets,
\* the first progress label and the start of the read of the reference file.
\* The invocation keeps the referenceImage, subjectImage and aspectRatio of the
\* render it was created in.
handleGenerateClick ==
    IF referenceImage = null \/ subjectImage = null
    THEN /\ error' = Some(ValidationMessage)
         /\ UNCHANGED <<referenceImage, subjectImage, generatedImages, isLoading,
                        progressMessage, aspectRatio, runs, nRuns>>
    ELSE /\ nRuns < MaxRuns
         /\ isLoading' = TRUE
         /\ error' = null
         /\ generatedImages' = null
         /\ progressMessage' = Step1Message
         /\ nRuns' = nRuns + 1
         /\ runs' = [runs EXCEPT ![nRuns + 1] =
                        [NoRun EXCEPT !.pc = "readReference",
                                      !.referenceImage = referenceImage,
                                      !.subjectImage = subjectImage,
                                      !.aspectRatio = Some(aspectRatio)]]
         /\ UNCHANGED <<referenceImage, subjectImage, aspectRatio>>

\* A click on the trigger button; a disabled button dispatches no click.
ClickGenerate ==
    /\ ~ButtonDisabled
    /\ handleGenerateClick

\* What is left of an invocation once handleGenerateClick has returned: which
\* block it ended in, and how many of its fusion requests are still unanswered.
\* Its closure, its locals and its promises are released: nothing reads them.
Returned(run, pc) ==
    [NoRun EXCEPT !.pc = pc,
                  !.inFlight = Cardinality({i \in DOMAIN run.calls :
                                               run.calls[i].state = "pending"})]

\* Variant of RunFails: the cleanup is the last statement of the try block,
\* not a finally block, so a run that throws skips it.
RunFailsSkipsCleanup(r, err, run) ==
    /\ Catch(err)
    /\ runs' = [runs EXCEPT ![r] = Returned(run, "failed")]
    /\ UNCHANGED <<referenceImage, subjectImage, generatedImages, isLoading,
                   progressMessage, aspectRatio, nRuns>>

\* The run ends in the catch block with err, then the finally block.
RunFails(r, err, run) ==
    /\ Catch(err)
    /\ Finally
    /\ runs' = [runs EXCEPT ![r] = Returned(run, "failed")]
    /\ UNCHANGED <<referenceImage, subjectImage, generatedImages, aspectRatio,
                   nRuns>>

\* generatePromptFromImage up to its await: the request of the style extraction.
styleRequestOf(imageBase64, mimeType) ==
    [model |-> "gemini-2.5-flash", data |-> imageBase64, mimeType |-> mimeType,
     required |-> RequiredFields]

\* Variant of ReferenceRead: reader.onerror resolves the promise with an empty
\* payload, so the run goes on to the style extraction.
ReferenceReadResolvesOnError(r) ==
    /\ runs[r].pc = "readReference"
    /\ \E loaded \in BOOLEAN :
        LET file == runs[r].referenceImage[1].file
            referenceImageBase64 == IF loaded THEN fileToBase64(file)
                                              ELSE <<"base64", "">>
        IN /\ runs' = [runs EXCEPT ![r].pc = "analyze",
                                   ![r].styleRequest =
                                       Some(styleRequestOf(referenceImageBase64, file.type))]
           /\ UNCHANGED <<ui, nRuns>>

\* The FileReader of the reference file fires onload or onerror.
ReferenceRead(r) ==
    /\ runs[r].pc = "readReference"
    /\ \E loaded \in BOOLEAN :
        IF loaded
        THEN LET file == runs[r].referenceImage[1].file
                 referenceImageBase64 == fileToBase64(file)
             IN /\ runs' = [runs EXCEPT ![r].pc = "analyze",
                                        ![r].styleRequest =
                                            Some(styleRequestOf(referenceImageBase64, file.type))]
                /\ UNCHANGED <<ui, nRuns>>
        ELSE RunFails(r, ProgressEvent, runs[r])

\* What the remote service can answer to a style request: an error, or a JSON
\* text, which has all the required fields or lacks some.
StyleTexts(request) ==
    { [describes |-> request.data, fields |-> fs] :
        fs \in {RequiredFields, RequiredFields \ {"mood"}} }

StyleOutcomes(request) ==
    {[ok |-> FALSE, text |-> null]} \cup
    {[ok |-> TRUE, text |-> Some(t)] : t \in StyleTexts(request)}

\* Variant of generatePromptFromImage: the catch block logs and does not throw.
generatePromptFromImageSwallows(outcome) ==
    [state |-> "fulfilled", value |-> outcome.text]

\* generatePromptFromImage after its await: response.text, or the Error of its
\* catch block.
generatePromptFromImage(outcome) ==
    IF outcome.ok
    THEN [state |-> "fulfilled", value |-> outcome.text]
    ELSE [state |-> "rejected", value |-> Some(ErrorOf(AnalyzeMessage))]

\* The style request of run r is answered; on success the second progress
\* label is set and the read of the subject file starts.
StyleResponse(r) ==
    /\ runs[r].pc = "analyze"
    /\ \E outcome \in StyleOutcomes(runs[r].styleRequest[1]) :
        LET p == generatePromptFromImage(outcome)
        IN IF p.state = "fulfilled"
           THEN /\ runs' = [runs EXCEPT ![r].pc = "readSubject",
                                        ![r].stylePrompt = p.value]
                /\ progressMessage' = Step2Message
                /\ UNCHANGED <<referenceImage, subjectImage, generatedImages, isLoading,
                               error, aspectRatio, nRuns>>
           ELSE RunFails(r, p.value[1], runs[r])

\* ---------------------------------------------------------------- fusion
\* The template literal of generateFusedImages: its two holes.
finalPromptOf(stylePrompt, aspectRatioArg) ==
    [aspectRatio |-> aspectRatioArg, styleGuide |-> stylePrompt]

\* generateSingleImage up to its await: the request of one fusion call.
fusionRequestOf(stylePrompt, subjectImageBase64, subjectMimeType, aspectRatioArg) ==
    [model |-> "gemini-2.5-flash-image",
     data |-> subjectImageBase64, mimeType |-> subjectMimeType,
     text |-> finalPromptOf(stylePrompt, aspectRatioArg)]

PendingCall(request) == [request |-> request, state |-> "pending", value |-> null]

\* The imagePromises array: generateSingleImage() four times, each issuing its
\* request before generateFusedImages reaches its await.
imagePromises(request) ==
    << PendingCall(request), PendingCall(request),
       PendingCall(request), PendingCall(request) >>

\* Variant of SubjectRead: the continuation reads the subject image and the
\* aspect ratio of the component's state at that moment, not those the handler
\* captured at the click.
SubjectReadCurrentState(r) ==
    /\ runs[r].pc = "readSubject"
    /\ \E loaded \in BOOLEAN :
        IF loaded
        THEN LET file == subjectImage[1].file
                 subjectImageBase64 == fileToBase64(file)
                 request == fusionRequestOf(runs[r].stylePrompt, subjectImageBase64,
                                            file.type, aspectRatio)
             IN /\ runs' = [runs EXCEPT ![r].pc = "fuse",
                                        ![r].calls = imagePromises(request)]
                /\ UNCHANGED <<ui, nRuns>>
        ELSE RunFails(r, ProgressEvent, runs[r])

\* The FileReader of the subject file fires onload or onerror; on load
\* generateFusedImages is called and issues the fusion requests.
SubjectRead(r) ==
    /\ runs[r].pc = "readSubject"
    /\ \E loaded \in BOOLEAN :
        IF loaded
        THEN LET file == runs[r].subjectImage[1].file
                 subjectImageBase64 == fileToBase64(file)
                 request == fusionRequestOf(runs[r].stylePrompt, subjectImageBase64,
                                            file.type, runs[r].aspectRatio[1])
             IN /\ runs' = [runs EXCEPT ![r].pc = "fuse",
                                        ![r].calls = imagePromises(request)]
                /\ UNCHANGED <<ui, nRuns>>
        ELSE RunFails(r, ProgressEvent, runs[r])

\* The parts of a fusion response: a text part, or an image part with inline
\* data.  The data of an image names the request it answers, the position n of
\* the call among the calls of its run, and which image of the response it is.
TextPart == [text |-> "Here is the image."]

ImagePart(request, n, alt) ==
    [inlineData |-> [data |-> [answers |-> request, n |-> n, alt |-> alt],
                     mimeType |-> "image/png"]]

\* What the remote service can answer to the n-th fusion call: an error, or a
\* response whose parts hold no image, or one or two of them.
FusionOutcomes(request, n) ==
    {[ok |-> FALSE, parts |-> <<>>]} \cup
    {[ok |-> TRUE, parts |-> ps] :
        ps \in { <<>>,
                 <<TextPart>>,
                 <<ImagePart(request, n, 1)>>,
                 <<TextPart, ImagePart(request, n, 1)>>,
                 <<ImagePart(request, n, 1), TextPart, ImagePart(request, n, 2)>> }}

\* Variant of firstInlineData: only the first part of the response is looked at.
firstInlineDataHeadOnly(parts) ==
    IF parts = <<>>
    THEN null
    ELSE IF "inlineData" \in DOMAIN Head(parts)
         THEN Some(Head(parts).inlineData.data)
         ELSE null

\* for (const part of parts) if (part.inlineData) return part.inlineData.data
RECURSIVE firstInlineData(_)
firstInlineData(parts) ==
    IF parts = <<>>
    THEN null
    ELSE IF "inlineData" \in DOMAIN Head(parts)
         THEN Some(Head(parts).inlineData.data)
         ELSE firstInlineData(Tail(parts))

\* generateSingleImage after its await: how its promise settles.
generateSingleImage(outcome) ==
    IF ~outcome.ok
    THEN [state |-> "rejected", value |-> Some(ErrorOf("remote call failed"))]
    ELSE IF firstInlineData(outcome.parts) = null
         THEN [state |-> "rejected", value |-> Some(ErrorOf(NoImageMessage))]
         ELSE [state |-> "fulfilled", value |-> firstInlineData(outcome.parts)]

\* Variant of PromiseAll: the values are collected last call first.
PromiseAllReversed(calls) ==
    IF \E i \in DOMAIN calls : calls[i].state = "rejected"
    THEN [state |-> "rejected", value |-> null]
    ELSE IF \A i \in DOMAIN calls : calls[i].state = "fulfilled"
         THEN [state |-> "fulfilled",
               value |-> Some([i \in DOMAIN calls |->
                                 calls[Len(calls) + 1 - i].value[1]])]
         ELSE [state |-> "pending", value |-> null]

\* The values of the fulfilled promises of calls, in the order of the array.
RECURSIVE fulfilledValues(_)
fulfilledValues(calls) ==
    IF calls = <<>>
    THEN <<>>
    ELSE IF Head(calls).state = "fulfilled"
         THEN <<Head(calls).value[1]>> \o fulfilledValues(Tail(calls))
         ELSE fulfilledValues(Tail(calls))

\* Variant of PromiseAll: waits for every promise to settle and is fulfilled
\* with the values of those that were fulfilled (best effort).
PromiseAllBestEffort(calls) ==
    IF \E i \in DOMAIN calls : calls[i].state = "pending"
    THEN [state |-> "pending", value |-> null]
    ELSE [state |-> "fulfilled", value |-> Some(fulfilledValues(calls))]

\* Variant of PromiseAll: settles with the first promise that settles (a race).
PromiseAllRace(calls) ==
    IF \E i \in DOMAIN calls : calls[i].state = "rejected"
    THEN [state |-> "rejected", value |-> null]
    ELSE IF \E i \in DOMAIN calls : calls[i].state = "fulfilled"
         THEN [state |-> "fulfilled", value |-> Some(fulfilledValues(calls))]
         ELSE [state |-> "pending", value |-> null]

\* Promise.all(calls): rejected as soon as one promise is rejected, fulfilled
\* with the values in the order of the array once all are fulfilled.
PromiseAll(calls) ==
    IF \E i \in DOMAIN calls : calls[i].state = "rejected"
    THEN [state |-> "rejected", value |-> null]
    ELSE IF \A i \in DOMAIN calls : calls[i].state = "fulfilled"
         THEN [state |-> "fulfilled",
               value |-> Some([i \in DOMAIN calls |-> calls[i].value[1]])]
         ELSE [state |-> "pending", value |-> null]

\* newImageBase64Array.map(base64 => `data:image/png;base64,${base64}`)
mapToDataUrls(base64Images) ==
    [i \in DOMAIN base64Images |-> toDataUrl(base64Images[i])]

\* The i-th fusion call of run r is answered while generateFusedImages awaits
\* Promise.all: the promise of the call settles, and when that settles
\* Promise.all, generateFusedImages and handleGenerateClick resume.
FusionResponse(r, i) ==
    /\ runs[r].pc = "fuse"
    /\ runs[r].calls[i].state = "pending"
    /\ \E outcome \in FusionOutcomes(runs[r].calls[i].request, i) :
        LET p == generateSingleImage(outcome)
            calls == [runs[r].calls EXCEPT ![i].state = p.state, ![i].value = p.value]
            run == [runs[r] EXCEPT !.calls = calls]
            all == PromiseAll(calls)
        IN IF all.state = "rejected"
           THEN RunFails(r, ErrorOf(FusionMessage), run)
           ELSE IF all.state = "fulfilled"
           THEN /\ generatedImages' = Some(mapToDataUrls(all.value[1]))
                /\ Finally
                /\ runs' = [runs EXCEPT ![r] = Returned(run, "succeeded")]
                /\ UNCHANGED <<referenceImage, subjectImage, error, aspectRatio,
                               nRuns>>
           ELSE /\ runs' = [runs EXCEPT ![r] = run]
                /\ UNCHANGED <<ui, nRuns>>

\* Variant of LateFusionResponse: every fusion call reports its own failure to
\* the component, so an answer arriving after the run ended sets the error.
LateFusionResponseReportsError(r) ==
    /\ runs[r].inFlight > 0
    /\ runs' = [runs EXCEPT ![r].inFlight = runs[r].inFlight - 1]
    /\ error' = Some(NoImageMessage)
    /\ UNCHANGED <<referenceImage, subjectImage, generatedImages, isLoading,
                   progressMessage, aspectRatio, nRuns>>

\* A fusion request of a returned invocation is answered: generateSingleImage
\* settles its promise, and Promise.all, settled before, ignores it.
LateFusionResponse(r) ==
    /\ runs[r].inFlight > 0
    /\ runs' = [runs EXCEPT ![r].inFlight = runs[r].inFlight - 1]
    /\ UNCHANGED <<ui, nRuns>>

Next ==
    \/ ReferenceFileChange
    \/ SubjectFileChange
    \/ SelectAspectRatio
    \/ ClickGenerate
    \/ \E r \in 1..MaxRuns : ReferenceRead(r)
    \/ \E r \in 1..MaxRuns : StyleResponse(r)
    \/ \E r \in 1..MaxRuns : SubjectRead(r)
    \/ \E r \in 1..MaxRuns : \E i \in DOMAIN runs[r].calls : FusionResponse(r, i)
    \/ \E r \in 1..MaxRuns : LateFusionResponse(r)

Spec == Init /\ [][Next]_vars

\* handleGenerateClick called as a function, whatever the disabled attribute
\* of the button says, while no earlier invocation is in progress.
InvokeGenerate ==
    /\ ~isLoading
    /\ handleGenerateClick

NextHandler ==
    \/ Next
    \/ InvokeGenerate

SpecHandler == Init /\ [][NextHandler]_vars

\* A step of the invocation r after one of its awaits.
Continuation(r) ==
    \/ ReferenceRead(r)
    \/ StyleResponse(r)
    \/ SubjectRead(r)
    \/ \E i \in 1..4 : FusionResponse(r, i)

\* The program under the assumption that every FileReader fires onload or
\* onerror and every remote call is answered or fails: an invocation that
\* waits at an await is eventually resumed.
SpecFair == Spec /\ \A r \in 1..MaxRuns : WF_vars(Continuation(r))

\* ---------------------------------------------------------------- claims
Runs == 1..MaxRuns

\* if (part.inlineData)
HasInlineData(part) == "inlineData" \in DOMAIN part

\* The parts arrays of at most MaxParts parts a response to the n-th fusion
\* call can hold: text parts and image parts, in any order.
PartSequences(request, n) ==
    UNION { [1..len -> {TextPart, ImagePart(request, n, 1), ImagePart(request, n, 2)}] :
              len \in 0..MaxParts }

\* Run r is between the start of handleGenerateClick and its return.
Live(r) == runs[r].pc \in {"readReference", "analyze", "readSubject", "fuse"}

BothImagesPresent == referenceImage # null /\ subjectImage # null

\* C1: when a run succeeds the displayed result has exactly four images, and
\* the i-th is the data URL of the image the i-th issued fusion call returned,
\* whatever the order in which the four calls were answered.
C1_SucceededRunShowsFourInIssueOrder ==
    [][\A r \in Runs :
        (runs[r].pc = "fuse" /\ runs'[r].pc = "succeeded") =>
            /\ generatedImages' # null
            /\ Len(generatedImages'[1]) = 4
            /\ \A i \in 1..4 :
                LET img == generatedImages'[1][i]
                    call == runs[r].calls[i]
                IN /\ img = toDataUrl(img[2])
                   /\ img[2].n = i
                   /\ img[2].answers = call.request
                   /\ call.state = "fulfilled" => img[2] = call.value[1]]_vars

C1_Witness ==
    /\ generatedImages # null
    /\ Len(generatedImages[1]) = 4
    /\ \E r \in Runs : runs[r].pc = "succeeded"

\* C2: an invocation of handleGenerateClick while an image is missing sets the
\* validation message, starts no run and issues no request, and no step taken
\* while an image is missing starts a run or sets isLoading.
C2_MissingImageStartsNothing ==
    [][(~BothImagesPresent) =>
        /\ runs' = runs
        /\ nRuns' = nRuns
        /\ isLoading' = FALSE
        /\ InvokeGenerate => error' = Some(ValidationMessage)]_vars

C2_Witness ==
    /\ ~BothImagesPresent
    /\ error = Some(ValidationMessage)
    /\ ~isLoading
    /\ \A r \in Runs : runs[r] = NoRun

\* C3: a run whose fusion step fails ends with the fusion message, no results
\* and isLoading false; a run waiting in the fusion step has no failed call;
\* results, when present, are four images, never one to three.
C3_FusionFailureExposesNothing ==
    [][/\ \A r \in Runs :
            runs[r].pc = "fuse" =>
                /\ runs'[r].pc \in {"fuse", "succeeded", "failed"}
                /\ runs'[r].pc = "fuse" =>
                      \A i \in DOMAIN runs'[r].calls :
                          runs'[r].calls[i].state # "rejected"
                /\ runs'[r].pc = "succeeded" =>
                      \E i \in DOMAIN runs[r].calls :
                          \A j \in DOMAIN runs[r].calls \ {i} :
                              runs[r].calls[j].state = "fulfilled"
                /\ runs'[r].pc = "failed" =>
                      /\ error' = Some(FusionMessage)
                      /\ generatedImages' = null
                      /\ isLoading' = FALSE
       /\ generatedImages' # null => Len(generatedImages'[1]) = 4]_vars

C3_Witness ==
    /\ error = Some(FusionMessage)
    /\ generatedImages = null
    /\ ~isLoading
    /\ \E r \in Runs : runs[r].pc = "failed" /\ runs[r].inFlight = 2

\* C4: no fusion call is issued with a style descriptor that lacks one of the
\* six required fields (such a response fails the run).
C4_IncompleteStyleIssuesNoFusion ==
    \A r \in Runs : \A i \in DOMAIN runs[r].calls :
        runs[r].calls[i].request.text.styleGuide[1].fields = RequiredFields

\* C5: fusion calls exist only in a run whose style extraction has returned a
\* text; a run whose style extraction fails ends with the analysis message and
\* has issued no fusion call, and a returned run issues none.
C5_NoFusionBeforeStyle ==
    [][\A r \in Runs :
        /\ runs'[r].calls # <<>> =>
              /\ runs[r].pc \in {"readSubject", "fuse"}
              /\ runs[r].stylePrompt # null
              /\ \A i \in DOMAIN runs'[r].calls :
                    runs'[r].calls[i].request.text.styleGuide = runs[r].stylePrompt
        /\ runs[r].pc \in {"unstarted", "readReference", "analyze"} =>
              /\ runs'[r].calls = <<>>
              /\ runs'[r].inFlight = 0
        /\ (runs[r].pc = "analyze" /\ runs'[r].pc # "analyze") =>
              \/ runs'[r].pc = "readSubject" /\ runs'[r].stylePrompt # null
              \/ /\ runs'[r].pc = "failed"
                 /\ error' = Some(AnalyzeMessage)
                 /\ isLoading' = FALSE
        /\ runs[r].pc \in {"succeeded", "failed"} =>
              /\ runs'[r].pc = runs[r].pc
              /\ runs'[r].inFlight <= runs[r].inFlight]_vars

C5_Witness ==
    /\ error = Some(AnalyzeMessage)
    /\ ~isLoading
    /\ \E r \in Runs : runs[r].pc = "failed" /\ runs[r].inFlight = 0

\* C6 as stated: a run that has left the fusion step has none of its fusion
\* calls in flight.
C6_FullBarrier ==
    \A r \in Runs :
        runs[r].pc \in {"succeeded", "failed"} => runs[r].inFlight = 0

\* C6 amended: a run succeeds only when all four fusion calls have produced an
\* image; it waits in the fusion step only while none of its four calls has
\* failed and one is unanswered; it fails with at most three calls in flight.
C6_BarrierOnSuccessOnly ==
    \A r \in Runs :
        /\ runs[r].pc = "succeeded" => runs[r].inFlight = 0
        /\ runs[r].pc = "failed" => runs[r].inFlight \in 0..3
        /\ runs[r].pc = "fuse" =>
              /\ Len(runs[r].calls) = 4
              /\ \A i \in 1..4 : runs[r].calls[i].state \in {"pending", "fulfilled"}
              /\ \E i \in 1..4 : runs[r].calls[i].state = "pending"

C6_Witness ==
    /\ ~ButtonDisabled
    /\ error = Some(FusionMessage)
    /\ \E r \in Runs : runs[r].pc = "failed" /\ runs[r].inFlight = 3

\* C7: while a run is active (isLoading, or an invocation that has not
\* returned) no results and no error are displayed.
C7_ActiveRunShowsNothingStale ==
    (isLoading \/ \E r \in Runs : Live(r)) =>
        /\ generatedImages = null
        /\ error = null

C7_Witness ==
    /\ isLoading
    /\ nRuns = 2
    /\ runs[1].pc = "failed"
    /\ Live(2)

\* C8: the button is enabled only with both images present and no run active;
\* at most one invocation is between its start and its return, and isLoading
\* is true exactly while there is one.
C8_OneRunAtATime ==
    /\ Cardinality({r \in Runs : Live(r)}) <= 1
    /\ isLoading <=> \E r \in Runs : Live(r)
    /\ ~ButtonDisabled => /\ BothImagesPresent
                          /\ ~isLoading
                          /\ \A r \in Runs : ~Live(r)

C8_Witness ==
    /\ nRuns = 2
    /\ runs[1].pc = "failed"
    /\ runs[1].inFlight > 0
    /\ runs[2].pc = "fuse"
    /\ ButtonDisabled

\* C9: every failure of a run ends it with the message of the step that
\* failed, no results, isLoading false and the progress label cleared, and the
\* button is enabled again when both images are present.
C9_FailureIsCaught ==
    [][\A r \in Runs :
        (Live(r) /\ runs'[r].pc # runs[r].pc /\ ~Live(r)') =>
            \/ runs[r].pc = "fuse" /\ runs'[r].pc = "succeeded"
            \/ /\ runs'[r].pc = "failed"
               /\ error' # null
               /\ error'[1] # ""
               /\ error'[1] =
                    (CASE runs[r].pc \in {"readReference", "readSubject"} -> UnknownMessage
                       [] runs[r].pc = "analyze" -> AnalyzeMessage
                       [] runs[r].pc = "fuse" -> FusionMessage)
               /\ generatedImages' = null
               /\ isLoading' = FALSE
               /\ progressMessage' = ""
               /\ BothImagesPresent' => ~ButtonDisabled']_vars

C9_Witness ==
    /\ error = Some(UnknownMessage)
    /\ generatedImages = null
    /\ ~isLoading
    /\ ~ButtonDisabled
    /\ \E r \in Runs : runs[r].pc = "failed"

\* C10: of 'a run is active', 'results are present' and 'an error is present'
\* at most one holds.
C10_RunStatesExclusive ==
    /\ ~(isLoading /\ generatedImages # null)
    /\ ~(isLoading /\ error # null)
    /\ ~(generatedImages # null /\ error # null)

C10_Witness ==
    /\ error # null
    /\ generatedImages = null
    /\ ~isLoading
    /\ nRuns = 2
    /\ runs[1].pc = "succeeded"
    /\ runs[2].pc = "failed"

\* C11: the selected aspect ratio is "1:1" initially and one of the five
\* option values after every step, and so is the aspect ratio every run keeps
\* and every fusion request carries.
C11_AspectRatioIsAnOption ==
    /\ aspectRatio = "1:1"
    /\ [][/\ aspectRatio' \in AspectRatios
          /\ \A r \in Runs :
                /\ runs'[r].aspectRatio # null =>
                      runs'[r].aspectRatio[1] \in AspectRatios
                /\ \A i \in DOMAIN runs'[r].calls :
                      runs'[r].calls[i].request.text.aspectRatio \in AspectRatios]_vars

C11_Witness ==
    /\ aspectRatio = "9:16"
    /\ \E r \in Runs :
          /\ runs[r].pc = "fuse"
          /\ \A i \in 1..4 : runs[r].calls[i].request.text.aspectRatio = "16:9"

\* C12: a run keeps the subject image and the aspect ratio selected at its
\* click and, once extracted, its own style descriptor, whatever is uploaded or
\* selected meanwhile; when it reaches the fusion step it issues exactly four
\* calls, each carrying exactly these three inputs, and the four requests do
\* not change afterwards.
C12_FourCallsWithTheRunsInputs ==
    [][\A r \in Runs :
        /\ (nRuns' = nRuns + 1 /\ r = nRuns') =>
              /\ runs'[r].subjectImage = subjectImage
              /\ runs'[r].aspectRatio = Some(aspectRatio)
        /\ (Live(r) /\ runs'[r].pc \in {"readReference", "analyze", "readSubject", "fuse"}) =>
              /\ runs'[r].subjectImage = runs[r].subjectImage
              /\ runs'[r].aspectRatio = runs[r].aspectRatio
              /\ runs[r].stylePrompt # null => runs'[r].stylePrompt = runs[r].stylePrompt
        /\ (runs[r].pc = "analyze" /\ runs'[r].pc = "readSubject") =>
              /\ runs'[r].stylePrompt # null
              /\ runs'[r].stylePrompt[1].describes = runs[r].styleRequest[1].data
        /\ runs[r].pc # "fuse" => (runs'[r].pc = "fuse" <=> runs'[r].calls # <<>>)
        /\ (runs[r].pc = "readSubject" /\ runs'[r].pc = "fuse") =>
              /\ Len(runs'[r].calls) = 4
              /\ \A i \in 1..4 :
                    LET request == runs'[r].calls[i].request
                        file == runs[r].subjectImage[1].file
                    IN /\ runs'[r].calls[i].state = "pending"
                       /\ request.data = fileToBase64(file)
                       /\ request.mimeType = file.type
                       /\ request.text.aspectRatio = runs[r].aspectRatio[1]
                       /\ request.text.styleGuide = runs[r].stylePrompt
        /\ (runs[r].pc = "fuse" /\ runs'[r].pc = "fuse") =>
              /\ Len(runs'[r].calls) = 4
              /\ \A i \in 1..4 :
                    runs'[r].calls[i].request = runs[r].calls[i].request]_vars

C12_Witness ==
    \E r \in Runs :
        /\ runs[r].pc = "fuse"
        /\ subjectImage # runs[r].subjectImage
        /\ aspectRatio # runs[r].aspectRatio[1]
        /\ \A i \in 1..4 :
              /\ runs[r].calls[i].request.data = fileToBase64(runs[r].subjectImage[1].file)
              /\ runs[r].calls[i].request.text.aspectRatio = runs[r].aspectRatio[1]

\* C13: whenever results are displayed, each displayed image was generated
\* from the currently selected subject image, with a style guide extracted
\* from the currently selected reference image.
C13_ResultsFromSelectedImages ==
    generatedImages # null =>
        \A i \in DOMAIN generatedImages[1] :
            LET request == generatedImages[1][i][2].answers
            IN /\ subjectImage # null
               /\ referenceImage # null
               /\ request.data = fileToBase64(subjectImage[1].file)
               /\ request.text.styleGuide[1].describes =
                      fileToBase64(referenceImage[1].file)

\* C14: while no run is active, the results, the error, the loading flag and
\* the progress label change only in a step of the user (an upload or a
\* selection, which moves no run, or a click, which starts one); an ended run
\* stays ended, and the arrival of an answer to one of its calls changes
\* nothing the interface shows, also while a following run is active.
C14_EndedRunChangesNothing ==
    [][/\ (~isLoading /\ <<generatedImages, error, isLoading, progressMessage>>' #
                           <<generatedImages, error, isLoading, progressMessage>>) =>
              (runs' = runs \/ nRuns' = nRuns + 1)
       /\ \A r \in Runs :
              runs[r].pc \in {"succeeded", "failed"} =>
                  /\ runs'[r].pc = runs[r].pc
                  /\ runs'[r].inFlight <= runs[r].inFlight
                  /\ runs'[r].inFlight # runs[r].inFlight => ui' = ui]_vars

C14_Witness ==
    /\ nRuns = 2
    /\ runs[1].pc = "failed"
    /\ runs[1].inFlight = 1
    /\ runs[2].pc = "fuse"
    /\ isLoading
    /\ error = null

\* C15: when every read and every remote call eventually completes or fails,
\* every started run eventually ends: it is Succeeded or Failed, the loading
\* flag is false and the progress label is empty.
C15_StartedRunEnds ==
    \A r \in Runs :
        Live(r) ~> /\ runs[r].pc \in {"succeeded", "failed"}
                   /\ ~isLoading
                   /\ progressMessage = ""

C15_Witness ==
    /\ nRuns = 2
    /\ runs[1].pc = "failed"
    /\ runs[2].pc = "succeeded"
    /\ ~isLoading
    /\ progressMessage = ""
    /\ generatedImages # null

\* C16: a run that waits for the read of its reference image has issued no
\* remote call, and one that waits for the read of its subject image has
\* issued no fusion call; a style request carries the encoding of the run's
\* reference image; when either read fails the run is Failed with a non-empty
\* message, no call of it is in flight, and it issues none afterwards.
C16_EncodeFailureAborts ==
    [][\A r \in Runs :
        /\ runs[r].pc = "readReference" =>
              /\ runs[r].styleRequest = null
              /\ runs[r].calls = <<>>
        /\ runs[r].pc = "readSubject" => runs[r].calls = <<>>
        /\ runs'[r].styleRequest # null =>
              runs'[r].styleRequest[1].data =
                  fileToBase64(runs'[r].referenceImage[1].file)
        /\ (runs[r].pc \in {"readReference", "readSubject"} /\ ~Live(r)') =>
              /\ runs'[r].pc = "failed"
              /\ runs'[r].inFlight = 0
              /\ error' # null
              /\ error'[1] # ""
              /\ ~isLoading'
        /\ runs[r].pc = "failed" =>
              /\ runs'[r].pc = "failed"
              /\ runs'[r].styleRequest = null
              /\ runs'[r].calls = <<>>
              /\ runs'[r].inFlight <= runs[r].inFlight]_vars

C16_Witness ==
    /\ nRuns = 1
    /\ runs[1].pc = "failed"
    /\ runs[1].inFlight = 0
    /\ error = Some(UnknownMessage)
    /\ progressMessage = ""

====
